---- MODULE Spec2Model ----
(***************************************************************************)
(* Company name / VAT field synchronisation of the checkout address forms  *)
(* (BillingForm and ShippingForm).  One mounted form instance is modelled: *)
(* its props and state, the VAT requests in flight, the two target inputs  *)
(* of the document and the repeating timers registered by the DOM effect.  *)
(* A render and the effects whose dependencies it changed are one step,    *)
(* so a registered timer's closure always holds the values of the render   *)
(* that registered it.                                                     *)
(***************************************************************************)
EXTENDS Integers, Sequences, FiniteSets, TLC

(* ------------------------------ bounds --------------------------------- *)
MaxTimerId == 4      \* interval ids handed out by window.setInterval
MaxInflight == 2     \* VAT requests in flight at the same time
MaxTimestamp == 1    \* values of shippingFormRenderTimestamp (0: undefined)
MaxFields == 2       \* length of the list getFields returns

(* --------------------------- program constants -------------------------- *)
pIvaID == "30"
pIvaCustomFieldId == "field_30"

(* ----------------------------- value domains ---------------------------- *)
Undef == "undefined"
Forms == {"billing", "shipping"}
\* getCustomer(): id 0 is a guest (falsy id); customerGroup?.name and
\* addresses?.[0]?.company are undefined where the record has none.
Customers ==
    { [id |-> 0, groupName |-> Undef, addrCompany |-> Undef],
      [id |-> 1, groupName |-> "Acme", addrCompany |-> "Beta"],
      [id |-> 2, groupName |-> Undef, addrCompany |-> "Beta"] }
VatOf(cid) == IF cid = 1 THEN "IT1" ELSE "IT2"   \* the backend's record
Outcomes == {"vat", "empty", "http", "network"}
InputValues == {"old"}                   \* values the form framework renders
Flags == {Undef, "false", "true"}        \* checkoutSettings.hasMultiShippingEnabled

NoAddress == [present |-> FALSE, company |-> Undef, isArray |-> FALSE,
              customFields |-> <<>>]
Addresses ==
    { NoAddress,
      [present |-> TRUE, company |-> "", isArray |-> TRUE,
       customFields |-> << [fieldId |-> "field_32", fieldValue |-> "x"],
                           [fieldId |-> "field_30", fieldValue |-> "IT999"] >>],
      [present |-> TRUE, company |-> "Gamma", isArray |-> FALSE,
       customFields |-> <<>>] }

NoInput == [present |-> FALSE, value |-> "", readOnly |-> FALSE, styled |-> FALSE]

VARIABLES
    form,            \* which component this instance is
    mounted,         \* the instance is mounted
    customer,        \* getCustomer(): id, customerGroup name, first address
    address,         \* billingAddress / shippingAddress prop
    companyVat,      \* React state, '' initially
    inflight,        \* requests in flight: customer id -> count
    pivaInput,       \* document.getElementById('field_30Input')
    companyInput,    \* document.querySelector('input[name=...company]')
    timers,          \* active intervals: [id, companyName, companyVat]
    intervalId,      \* intervalId of the DOM effect's current closure
    nextId,          \* next id window.setInterval returns
    timestamp,       \* shippingFormRenderTimestamp (0: undefined)
    flag,            \* config?.checkoutSettings?.hasMultiShippingEnabled
    usingMulti,      \* isUsingMultiShipping(consignments, cart.lineItems)
    isMultiShippingMode,  \* the parent's mode, set by setIsMultishippingMode
    formFields,      \* getFields(countryCode)
    countryCode,     \* the country code handed to getFields
    patchedFields,   \* the list the form's patcher returned last
    synced,          \* timer whose tick last processed the VAT input, and
                     \* whether companyName / companyVat re-ran the effect since
    last             \* the step taken last (observation)

vars == << form, mounted, customer, address,
           companyVat, inflight, pivaInput, companyInput, timers, intervalId,
           nextId, timestamp, flag, usingMulti, isMultiShippingMode,
           formFields, countryCode, patchedFields, synced, last >>

fieldVars == << formFields, countryCode, patchedFields >>

(* --------------------------- JavaScript values -------------------------- *)
Truthy(x) == x \notin {Undef, ""}
Or(a, b) == IF Truthy(a) THEN a ELSE b          \* a || b
Coalesce(a, b) == IF a = Undef THEN b ELSE a    \* a ?? b

(* ------------------------------ resolver -------------------------------- *)
\* Variant: the stored address takes precedence over the customer group.
CompanyNameAddressFirst(group, addr, edited) ==
    Or(Or(Or(addr, group), edited), "")

CompanyName(group, addr, edited) == Or(Or(Or(group, addr), edited), "")

CurrentName ==
    CompanyName(customer.groupName, customer.addrCompany, address.company)

(* ------------------------- VAT request (loadCompanyVat) ----------------- *)
\* The try block after the awaits: does it raise, does it call setCompanyVat.
TryLoadCompanyVat(outcome, cid) ==
    [ raised |-> outcome \in {"network", "http"},
      set    |-> outcome = "vat" /\ Truthy(VatOf(cid)),
      value  |-> VatOf(cid) ]

\* Variant: a failed request clears the state.
LoadCompanyVatReset(outcome, cid, cur) ==
    LET r == TryLoadCompanyVat(outcome, cid)
    IN  [ companyVat |-> IF r.set THEN r.value
                         ELSE IF r.raised THEN "" ELSE cur,
          logged     |-> r.raised,
          thrown     |-> FALSE ]

\* The whole function: the catch block logs what the try block raised.
LoadCompanyVat(outcome, cid, cur) ==
    LET r == TryLoadCompanyVat(outcome, cid)
    IN  [ companyVat |-> IF r.set THEN r.value ELSE cur,
          logged     |-> r.raised,
          thrown     |-> FALSE ]

Total(f) == f[1] + f[2]
NoRequests == [c \in {1, 2} |-> 0]

\* The effect on [customerId]: one GET unless the id is falsy.
FetchEffect(cid, reqs) ==
    IF cid # 0 THEN [reqs EXCEPT ![cid] = @ + 1] ELSE reqs

(* ----------------------------- DOM synchroniser ------------------------- *)
SetInterval(ts, id, name, vat) ==
    ts \cup {[id |-> id, companyName |-> name, companyVat |-> vat]}

ClearInterval(ts, id) == {t \in ts : t.id # id}

\* Variant: the cleanup leaves the interval running.
EffectCleanupLeak(ts, id) == ts

\* The cleanup the DOM effect returns.
EffectCleanup(ts, id) == ClearInterval(ts, id)

NotSynced == [id |-> 0, valueRerun |-> FALSE]

\* Variant: the value is written only into an empty input.
SyncInputIfEmpty(el, resolved) ==
    [ present  |-> TRUE,
      readOnly |-> TRUE,
      value    |-> IF Truthy(resolved) /\ el.value = ""
                   THEN resolved ELSE el.value,
      styled   |-> TRUE ]

\* What a tick does to one input that it found.
SyncInput(el, resolved) ==
    [ present  |-> TRUE,
      readOnly |-> TRUE,
      value    |-> IF Truthy(resolved) /\ el.value # resolved
                   THEN resolved ELSE el.value,
      styled   |-> TRUE ]

\* Variants: stop only when both were found; stop after any tick.
StopWhenBoth(piva, company) == piva.present /\ company.present

StopAlways(piva, company) == TRUE

\* The interval is stopped when at least one of the two was found.
StopAfterTick(piva, company) == piva.present \/ company.present

\* Dependencies of the DOM effect: [companyName, companyVat] in BillingForm,
\* [shippingFormRenderTimestamp, companyName, companyVat] in ShippingForm.
SyncDepsChanged(name2, vat2, ts2) ==
    \/ name2 # CurrentName
    \/ vat2 # companyVat
    \/ form = "shipping" /\ ts2 # timestamp

\* A render's DOM effect: cleanup of the previous run, then a new interval.
DomEffect(name2, vat2, ts2) ==
    IF SyncDepsChanged(name2, vat2, ts2)
    THEN /\ nextId <= MaxTimerId
         /\ timers' = SetInterval(EffectCleanup(timers, intervalId),
                                  nextId, name2, vat2)
         /\ intervalId' = nextId
         /\ nextId' = nextId + 1
         /\ synced' = IF name2 # CurrentName \/ vat2 # companyVat
                      THEN [synced EXCEPT !.valueRerun = TRUE]
                      ELSE synced
    ELSE UNCHANGED << timers, intervalId, nextId, synced >>

(* --------------------------- shipping mode ------------------------------ *)
\* Variant: the feature flag is not consulted.
ResolveModeNoFlag(fl, using) == using

\* The value the effect on [shippingFormRenderTimestamp] computes; cart and
\* consignments are required props and present.
ResolveMode(fl, using) ==
    /\ Coalesce(fl, "false") = "true"
    /\ using

ModeEffect(ts2, fl, using, mode) ==
    IF ts2 # 0 THEN ResolveMode(fl, using) ELSE mode

(* ----------------------- patched shipping address ----------------------- *)
PatchCustomField(cf, vat) ==
    IF cf.fieldId = pIvaCustomFieldId
    THEN [cf EXCEPT !.fieldValue = vat]
    ELSE cf

PatchedShippingAddress(ad, name, vat) ==
    IF ad.present
    THEN [ ad EXCEPT
             !.company = Or(name, ad.company),
             !.customFields =
                 IF ad.isArray
                 THEN [i \in DOMAIN ad.customFields |->
                          PatchCustomField(ad.customFields[i], vat)]
                 ELSE ad.customFields ]
    ELSE ad

(* ------------------------ field-requirement patchers -------------------- *)
\* A FormField: name, id, required and one more attribute (custom).
FieldShapes ==
    { << "field_30", "field_30" >>, << "customField[30]", "cf" >>,
      << "vat", "30" >>, << "company", "company" >>,
      << "billingAddress.company", "bc" >>,
      << "shippingAddress.company", "sc" >>, << "firm", "company" >>,
      << "firstName", "firstName" >>, << "field_32", "field_32" >> }

FormFields ==
    { [name |-> sh[1], id |-> sh[2], required |-> r,
       custom |-> sh[1] \in {"field_30", "field_32", "customField[30]"}] :
      sh \in FieldShapes, r \in BOOLEAN }

FieldLists == UNION { [1..n -> FormFields] : n \in 0..MaxFields }

CountryCodes == {Undef, "IT", "US"}

\* getFields(countryCode): the provider's list for the country asked for.
GetFields(cc) == formFields

IsPivaField(field) ==
    \/ field.name = "field_" \o pIvaID
    \/ field.name = "customField[" \o pIvaID \o "]"
    \/ field.id = pIvaID

IsCompanyFieldBilling(field) ==
    \/ field.name = "company"
    \/ field.name = "billingAddress.company"
    \/ field.name = "shippingAddress.company"
    \/ field.id = "company"

IsCompanyFieldShipping(field) ==
    \/ field.name = "company"
    \/ field.name = "shippingAddress.company"
    \/ field.id = "company"

\* Variant: every custom field is made optional.
getFieldsAllCustomOptional(cc) ==
    LET fields == GetFields(cc)
    IN  [ i \in DOMAIN fields |->
            IF fields[i].custom \/ IsCompanyFieldBilling(fields[i])
            THEN [fields[i] EXCEPT !.required = FALSE]
            ELSE fields[i] ]

\* BillingForm's patcher.
getFieldsWithPivaReadonly(cc) ==
    LET fields == GetFields(cc)
    IN  [ i \in DOMAIN fields |->
            IF IsPivaField(fields[i]) \/ IsCompanyFieldBilling(fields[i])
            THEN [fields[i] EXCEPT !.required = FALSE]
            ELSE fields[i] ]

\* Variant: the shipping patcher does not look at field.id === 'company'.
getFieldsWithPivaRequiredNoId(cc) ==
    LET fields == GetFields(cc)
    IN  [ i \in DOMAIN fields |->
            IF \/ IsPivaField(fields[i])
               \/ fields[i].name \in {"company", "shippingAddress.company"}
            THEN [fields[i] EXCEPT !.required = FALSE]
            ELSE fields[i] ]

\* ShippingForm's patcher.
getFieldsWithPivaRequired(cc) ==
    LET fields == GetFields(cc)
    IN  [ i \in DOMAIN fields |->
            IF IsPivaField(fields[i]) \/ IsCompanyFieldShipping(fields[i])
            THEN [fields[i] EXCEPT !.required = FALSE]
            ELSE fields[i] ]

\* Which of the two the form instance renders on the child.
RenderedForm ==
    IF form = "shipping" /\ isMultiShippingMode
    THEN "MultiShippingForm"
    ELSE IF form = "shipping" THEN "SingleShippingForm" ELSE "AddressForm"

(* -------------------------------- steps --------------------------------- *)
Ev(op, cid, outcome, logged, thrown) ==
    [op |-> op, cid |-> cid, outcome |-> outcome, logged |-> logged,
     thrown |-> thrown]

Step(op) == Ev(op, 0, "", FALSE, FALSE)

\* The state after the first render and its effects.
Init ==
    /\ form \in Forms
    /\ mounted = TRUE
    /\ customer \in Customers
    /\ address \in Addresses
    /\ companyVat = ""
    /\ inflight = FetchEffect(customer.id, NoRequests)
    /\ pivaInput = NoInput
    /\ companyInput = NoInput
    /\ timers = SetInterval({}, 1, CurrentName, "")
    /\ intervalId = 1
    /\ nextId = 2
    /\ IF form = "shipping"
       THEN /\ timestamp \in {0, 1}
            /\ flag = "true"
            /\ usingMulti = TRUE
       ELSE /\ timestamp = 0
            /\ flag = Undef
            /\ usingMulti = FALSE
    /\ isMultiShippingMode = ModeEffect(timestamp, flag, usingMulti, FALSE)
    /\ formFields = << >>
    /\ countryCode = Undef
    /\ patchedFields = << >>
    /\ synced = NotSynced
    /\ last = Step("Mount")

\* The checkout state hands the form another customer record.
ChangeCustomer(c2) ==
    /\ mounted
    /\ c2 # customer
    /\ customer' = c2
    /\ IF c2.id # customer.id
       THEN /\ c2.id # 0 => Total(inflight) < MaxInflight
            /\ inflight' = FetchEffect(c2.id, inflight)
       ELSE UNCHANGED inflight
    /\ DomEffect(CompanyName(c2.groupName, c2.addrCompany, address.company),
                 companyVat, timestamp)
    /\ last' = Step("ChangeCustomer")
    /\ UNCHANGED << fieldVars, form, mounted, address, companyVat, pivaInput,
                    companyInput, timestamp, flag, usingMulti,
                    isMultiShippingMode >>

\* The billingAddress / shippingAddress prop changes.
ChangeAddress(ad2) ==
    /\ mounted
    /\ ad2 # address
    /\ address' = ad2
    /\ DomEffect(CompanyName(customer.groupName, customer.addrCompany,
                             ad2.company),
                 companyVat, timestamp)
    /\ last' = Step("ChangeAddress")
    /\ UNCHANGED << fieldVars, form, mounted, customer,
                    companyVat, inflight, pivaInput, companyInput, timestamp,
                    flag, usingMulti, isMultiShippingMode >>

\* ShippingForm only: a new shippingFormRenderTimestamp.
ChangeTimestamp ==
    /\ mounted
    /\ form = "shipping"
    /\ timestamp < MaxTimestamp
    /\ timestamp' = timestamp + 1
    /\ isMultiShippingMode' =
           ModeEffect(timestamp + 1, flag, usingMulti, isMultiShippingMode)
    /\ DomEffect(CurrentName, companyVat, timestamp + 1)
    /\ last' = Step("ChangeTimestamp")
    /\ UNCHANGED << fieldVars, form, mounted, customer,
                    address, companyVat, inflight, pivaInput, companyInput,
                    flag, usingMulti >>

\* ShippingForm only: the config flag or the consignments change.
UpdateCheckout(fl2, using2) ==
    /\ mounted
    /\ form = "shipping"
    /\ << fl2, using2 >> # << flag, usingMulti >>
    /\ flag' = fl2
    /\ usingMulti' = using2
    /\ last' = Step("UpdateCheckout")
    /\ UNCHANGED << fieldVars, synced, form, mounted, customer,
                    address, companyVat, inflight, pivaInput, companyInput,
                    timers, intervalId, nextId, timestamp,
                    isMultiShippingMode >>

\* A request completes; setCompanyVat does nothing once unmounted.
FetchResponse(cid, outcome) ==
    /\ inflight[cid] > 0
    /\ inflight' = [inflight EXCEPT ![cid] = @ - 1]
    /\ LET r == LoadCompanyVat(outcome, cid, companyVat)
           vat2 == IF mounted THEN r.companyVat ELSE companyVat
       IN  /\ companyVat' = vat2
           /\ IF mounted
              THEN DomEffect(CurrentName, vat2, timestamp)
              ELSE UNCHANGED << timers, intervalId, nextId, synced >>
           /\ last' = Ev("FetchResponse", cid, outcome, r.logged, r.thrown)
    /\ UNCHANGED << fieldVars, form, mounted, customer,
                    address, pivaInput, companyInput, timestamp, flag,
                    usingMulti, isMultiShippingMode >>

\* The form framework renders one of the two inputs.
PivaInputAppears(v) ==
    /\ mounted
    /\ ~pivaInput.present
    /\ pivaInput' = [NoInput EXCEPT !.present = TRUE, !.value = v]
    /\ last' = Step("PivaInputAppears")
    /\ UNCHANGED << fieldVars, synced, form, mounted, customer,
                    address, companyVat, inflight, companyInput, timers,
                    intervalId, nextId, timestamp, flag, usingMulti,
                    isMultiShippingMode >>

CompanyInputAppears(v) ==
    /\ mounted
    /\ ~companyInput.present
    /\ companyInput' = [NoInput EXCEPT !.present = TRUE, !.value = v]
    /\ last' = Step("CompanyInputAppears")
    /\ UNCHANGED << fieldVars, synced, form, mounted, customer,
                    address, companyVat, inflight, pivaInput, timers,
                    intervalId, nextId, timestamp, flag, usingMulti,
                    isMultiShippingMode >>

\* Something other than the synchroniser writes an input's value.
PivaInputChanged(v) ==
    /\ pivaInput.present
    /\ pivaInput.value # v
    /\ pivaInput' = [pivaInput EXCEPT !.value = v]
    /\ last' = Step("PivaInputChanged")
    /\ UNCHANGED << fieldVars, synced, form, mounted, customer,
                    address, companyVat, inflight, companyInput, timers,
                    intervalId, nextId, timestamp, flag, usingMulti,
                    isMultiShippingMode >>

CompanyInputChanged(v) ==
    /\ companyInput.present
    /\ companyInput.value # v
    /\ companyInput' = [companyInput EXCEPT !.value = v]
    /\ last' = Step("CompanyInputChanged")
    /\ UNCHANGED << fieldVars, synced, form, mounted, customer,
                    address, companyVat, inflight, pivaInput, timers,
                    intervalId, nextId, timestamp, flag, usingMulti,
                    isMultiShippingMode >>

\* One run of the setInterval callback of timer t.
Tick(t) ==
    /\ t \in timers
    /\ pivaInput' = IF pivaInput.present
                    THEN SyncInput(pivaInput, t.companyVat) ELSE pivaInput
    /\ companyInput' = IF companyInput.present
                       THEN SyncInput(companyInput, t.companyName)
                       ELSE companyInput
    /\ timers' = IF StopAfterTick(pivaInput, companyInput)
                 THEN ClearInterval(timers, t.id) ELSE timers
    /\ synced' = IF pivaInput.present
                 THEN [id |-> t.id, valueRerun |-> FALSE] ELSE synced
    /\ last' = Ev("Tick", t.id, "", FALSE, FALSE)
    /\ UNCHANGED << fieldVars, form, mounted, customer,
                    address, companyVat, inflight, intervalId, nextId,
                    timestamp, flag, usingMulti, isMultiShippingMode >>

\* The form is unmounted: the DOM effect's cleanup runs, its inputs go.
Unmount ==
    /\ mounted
    /\ mounted' = FALSE
    /\ timers' = EffectCleanup(timers, intervalId)
    /\ pivaInput' = NoInput
    /\ companyInput' = NoInput
    /\ last' = Step("Unmount")
    /\ UNCHANGED << fieldVars, synced, form, customer, address,
                    companyVat, inflight, intervalId, nextId, timestamp, flag,
                    usingMulti, isMultiShippingMode >>

Next ==
    \/ \E c \in Customers : ChangeCustomer(c)
    \/ \E ad \in Addresses : ChangeAddress(ad)
    \/ ChangeTimestamp
    \/ \E c \in {1, 2}, o \in Outcomes : FetchResponse(c, o)
    \/ \E v \in InputValues : PivaInputAppears(v)
    \/ \E v \in InputValues : CompanyInputAppears(v)
    \/ \E v \in InputValues : PivaInputChanged(v)
    \/ \E v \in InputValues : CompanyInputChanged(v)
    \/ \E t \in timers : Tick(t)
    \/ Unmount

Spec == Init /\ [][Next]_vars

(* ------------------- the shipping mode, inputs varying ------------------ *)
InitMode ==
    /\ form = "shipping"
    /\ mounted = TRUE
    /\ customer \in Customers
    /\ address = NoAddress
    /\ companyVat = ""
    /\ inflight = FetchEffect(customer.id, NoRequests)
    /\ pivaInput = NoInput
    /\ companyInput = NoInput
    /\ timers = SetInterval({}, 1, CurrentName, "")
    /\ intervalId = 1
    /\ nextId = 2
    /\ timestamp \in {0, 1}
    /\ flag \in Flags
    /\ usingMulti \in BOOLEAN
    /\ \E parentMode \in BOOLEAN :
           isMultiShippingMode =
               ModeEffect(timestamp, flag, usingMulti, parentMode)
    /\ formFields = << >>
    /\ countryCode = Undef
    /\ patchedFields = << >>
    /\ synced = NotSynced
    /\ last = Step("Mount")

NextMode ==
    \/ ChangeTimestamp
    \/ \E fl \in Flags, u \in BOOLEAN : UpdateCheckout(fl, u)
    \/ \E v \in InputValues : PivaInputAppears(v)
    \/ \E t \in timers : Tick(t)
    \/ Unmount

SpecMode == InitMode /\ [][NextMode]_vars

(* ---------------------- the patchers, inputs varying -------------------- *)
InitFields ==
    /\ form \in Forms
    /\ mounted = TRUE
    /\ customer = [id |-> 0, groupName |-> Undef, addrCompany |-> Undef]
    /\ address = NoAddress
    /\ companyVat = ""
    /\ inflight = NoRequests
    /\ pivaInput = NoInput
    /\ companyInput = NoInput
    /\ timers = SetInterval({}, 1, CurrentName, "")
    /\ intervalId = 1
    /\ nextId = 2
    /\ timestamp = 0
    /\ flag = Undef
    /\ usingMulti = FALSE
    /\ isMultiShippingMode = FALSE
    /\ formFields \in FieldLists
    /\ countryCode \in CountryCodes
    /\ patchedFields = << >>
    /\ synced = NotSynced
    /\ last = Step("Mount")

\* A render: BillingForm calls its patcher itself, SingleShippingForm calls
\* the patcher ShippingForm hands it as getFields.
PatchFields ==
    /\ mounted
    /\ last.op # "PatchFields"
    /\ patchedFields' = IF form = "billing"
                        THEN getFieldsWithPivaReadonly(countryCode)
                        ELSE getFieldsWithPivaRequired(countryCode)
    /\ last' = Step("PatchFields")
    /\ UNCHANGED << form, mounted, customer, address, companyVat, inflight,
                    pivaInput, companyInput, timers, intervalId, nextId,
                    timestamp, flag, usingMulti, isMultiShippingMode,
                    formFields, countryCode, synced >>

NextFields == PatchFields

SpecFields == InitFields /\ [][NextFields]_vars

(* ======================================================================= *)
(*                               properties                                *)
(* ======================================================================= *)
Failures == {"http", "network"}
TimerIds == {t.id : t \in timers}
Unsynced(el, resolved) ==
    el.present /\ Truthy(resolved) /\ el.value # resolved

\* C1: while the form is mounted, an input that exists in the document, has
\* not been processed yet and does not show the non-empty resolved value has
\* an active timer whose next tick will write it, so that every input ends
\* up with the resolved value within one tick of its appearance.
C1_FieldsReflectResolved ==
    mounted =>
        /\ (Unsynced(pivaInput, companyVat) /\ ~pivaInput.readOnly
                => timers # {})
        /\ (Unsynced(companyInput, CurrentName) /\ ~companyInput.readOnly
                => timers # {})

\* C2 (first half): right after a tick that found the VAT input while the
\* resolved VAT is non-empty, the input's value is the resolved VAT, it is
\* read-only and the ticking timer is no longer registered.
C2_TickSyncsVat ==
    last.op = "Tick" /\ pivaInput.present /\ Truthy(companyVat)
        => /\ pivaInput.value = companyVat
           /\ pivaInput.readOnly
           /\ last.cid \notin TimerIds

\* A tick that changes the value of the VAT input after some tick has
\* already processed it.
WritesVatAgain ==
    /\ last'.op = "Tick"
    /\ pivaInput.present
    /\ synced.id # 0
    /\ pivaInput'.value # pivaInput.value

\* C2 as stated: after the cancellation the VAT input is written again only
\* once a change of companyName or companyVat has re-run the effect.
C2_NoWriteUntilValueChange ==
    /\ []C2_TickSyncsVat
    /\ [][WritesVatAgain => synced.valueRerun]_vars

\* C2 as amended: after the cancellation the VAT input is written again only
\* by a timer of a later run of the effect, whichever dependency re-ran it
\* (companyName, companyVat or, in ShippingForm, shippingFormRenderTimestamp).
C2_NoWriteUntilEffectReruns ==
    /\ []C2_TickSyncsVat
    /\ [][WritesVatAgain => last'.cid # synced.id]_vars

\* The VAT input was synchronised by the current run of the effect, the
\* timer is cancelled, and the input's value has been changed since.
C2_Witness ==
    /\ mounted
    /\ last.op = "PivaInputChanged"
    /\ Truthy(companyVat)
    /\ synced.id = intervalId
    /\ pivaInput.readOnly
    /\ timers = {}

\* C3: at most one timer is active in every reachable state, and none once
\* the form is unmounted.
C3_TimerOwnership ==
    /\ Cardinality(timers) <= 1
    /\ ~mounted => timers = {}

\* Unmounted after re-renders, the VAT input never having been processed.
C3_Witness ==
    /\ last.op = "Unmount"
    /\ nextId > 2
    /\ synced.id = 0
    /\ timers = {}

\* C4: a tick that found at least one of the two inputs cancels its timer
\* in that tick, and the timer that processed the VAT input is never
\* registered again.
C4_FoundCancelsTimer ==
    /\ last.op = "Tick" /\ (pivaInput.present \/ companyInput.present)
           => last.cid \notin TimerIds
    /\ synced.id \notin TimerIds

\* A tick found the VAT input alone and left no timer.
C4_Witness ==
    /\ mounted
    /\ last.op = "Tick"
    /\ pivaInput.readOnly
    /\ ~companyInput.present
    /\ timers = {}

C6_Outcome ==
    last.op = "FetchResponse" /\ mounted
        => /\ last.outcome = "vat" => companyVat = VatOf(last.cid)
           /\ last.outcome \in Failures => last.logged
           /\ ~last.thrown

C6_FetchOutcome ==
    /\ []C6_Outcome
    /\ [][last'.op = "FetchResponse" /\ last'.outcome \in Failures
             => companyVat' = companyVat]_vars

\* A request failed after an earlier one had resolved the VAT.
C6_Witness ==
    /\ mounted
    /\ last.op = "FetchResponse"
    /\ last.outcome = "http"
    /\ last.logged
    /\ companyVat = "IT1"

\* C7: after a failed request with no VAT resolved, the VAT input still
\* shows what the form rendered and the VAT custom field of the address
\* handed to SingleShippingForm is the one of shippingAddress.
C7_FailedFetchKeepsVat ==
    last.op = "FetchResponse" /\ last.outcome \in Failures /\ mounted
    /\ companyVat = ""
        => /\ pivaInput.present => pivaInput.value \in InputValues
           /\ form = "shipping" =>
                  PatchedShippingAddress(address, CurrentName,
                                         companyVat).customFields
                      = address.customFields

\* The aliases of the claim, for the form's own patcher.
IsAlias(field) ==
    \/ field.name \in {"field_30", "customField[30]"}
    \/ field.id = "30"
    \/ field.name \in {"company", "shippingAddress.company"}
    \/ field.id = "company"
    \/ form = "billing" /\ field.name = "billingAddress.company"

\* C8: the patched list has the length and order of the input; an alias
\* field differs from its input at most in required, which is false; any
\* other field is the input field.
C8_PatcherShape ==
    last.op = "PatchFields"
        => /\ Len(patchedFields) = Len(formFields)
           /\ \A i \in 1..Len(formFields) :
                  patchedFields[i] =
                      IF IsAlias(formFields[i])
                      THEN [formFields[i] EXCEPT !.required = FALSE]
                      ELSE formFields[i]

\* A required alias field was made optional, a required other field kept.
C8_Witness ==
    /\ last.op = "PatchFields"
    /\ Len(formFields) = 2
    /\ formFields[1].required /\ ~patchedFields[1].required
    /\ formFields[2].name = "field_32"
    /\ patchedFields[2].required

\* The precedence of the claim.
Precedence ==
    IF customer.groupName \notin {Undef, ""} THEN customer.groupName
    ELSE IF customer.addrCompany \notin {Undef, ""} THEN customer.addrCompany
    ELSE IF address.company \notin {Undef, ""} THEN address.company
    ELSE ""

\* C9: the company name every registered timer writes, and the company of
\* the patched shipping address, follow the precedence group name, first
\* stored address, edited address, ''.
C9_NamePrecedence ==
    /\ \A t \in timers : t.companyName = Precedence
    /\ address.present /\ Precedence # ""
           => PatchedShippingAddress(address, CurrentName,
                                     companyVat).company = Precedence
    /\ customer.groupName = "Acme" => CurrentName = "Acme"

\* A customer with a group name, a stored company and an edited company.
C9_Witness ==
    /\ mounted
    /\ last.op = "ChangeCustomer"
    /\ customer.groupName = "Acme"
    /\ customer.addrCompany = "Beta"
    /\ address.company = "Gamma"
    /\ \E t \in timers : t.companyName = "Acme"

\* C10: the mode handed to setIsMultishippingMode by the effect is
\* multi-shipping when the flag is enabled and the consignments are split,
\* single-shipping whenever the flag is not enabled; the form rendered
\* follows it.
C10_ModeResolution ==
    last.op \in {"Mount", "ChangeTimestamp"} /\ timestamp # 0
        => /\ flag = "true" /\ usingMulti
                  => isMultiShippingMode /\ RenderedForm = "MultiShippingForm"
           /\ flag # "true"
                  => ~isMultiShippingMode /\ RenderedForm = "SingleShippingForm"

\* The effect re-ran with the flag enabled and the consignments split.
C10_Witness ==
    /\ last.op = "ChangeTimestamp"
    /\ flag = "true"
    /\ usingMulti
    /\ isMultiShippingMode

\* C11 (state part): while the form is mounted and neither input is in the
\* document, a timer is registered.
C11_AbsentKeepsTimer ==
    mounted /\ ~pivaInput.present /\ ~companyInput.present => timers # {}

\* A tick that found neither input.
IdleTick ==
    last'.op = "Tick" /\ ~pivaInput.present /\ ~companyInput.present

\* C11: with neither input in the document the timer stays registered, a
\* tick changes neither the document nor the timers, and the timers of a
\* mounted form only go away in a tick that found an input or on unmount.
C11_AbsenceIsNotAnError ==
    /\ []C11_AbsentKeepsTimer
    /\ [][IdleTick => UNCHANGED << pivaInput, companyInput, timers,
                                   intervalId, companyVat, synced >>]_vars
    /\ [][timers # {} /\ timers' = {}
             => \/ last'.op = "Unmount"
                \/ last'.op = "Tick"
                   /\ (pivaInput.present \/ companyInput.present)]_vars

\* After a re-run of the effect a tick found neither input and the timer
\* of that run is still registered.
C11_Witness ==
    /\ mounted
    /\ nextId > 2
    /\ last.op = "Tick"
    /\ last.cid = intervalId
    /\ ~pivaInput.present
    /\ ~companyInput.present
    /\ intervalId \in TimerIds

\* C12: once every request issued for the current customer has completed,
\* a non-empty resolved VAT is the one the backend holds for that customer.
C12_NoStaleVat ==
    mounted /\ customer.id # 0 /\ inflight[customer.id] = 0
    /\ Truthy(companyVat)
        => companyVat = VatOf(customer.id)

\* C13 as stated: the list the form's patcher returned is the list either
\* patcher returns for the same getFields and country code.
C13_PatchersEquivalent ==
    last.op = "PatchFields"
        => /\ patchedFields = getFieldsWithPivaReadonly(countryCode)
           /\ patchedFields = getFieldsWithPivaRequired(countryCode)

\* C13 as amended: the two lists have the same length and agree on every
\* field not named billingAddress.company; such a field is made optional by
\* the billing patcher.
C13_PatchersAgreeButBilling ==
    last.op = "PatchFields"
        => LET ro == getFieldsWithPivaReadonly(countryCode)
               rq == getFieldsWithPivaRequired(countryCode)
           IN  /\ patchedFields = IF form = "billing" THEN ro ELSE rq
               /\ Len(ro) = Len(rq)
               /\ \A i \in 1..Len(formFields) :
                      IF formFields[i].name = "billingAddress.company"
                      THEN ~ro[i].required
                      ELSE ro[i] = rq[i]

\* Both patchers made the same required field optional, by its id alone.
C13_Witness ==
    /\ last.op = "PatchFields"
    /\ Len(formFields) = 1
    /\ formFields[1].name = "firm"
    /\ formFields[1].required
    /\ ~getFieldsWithPivaReadonly(countryCode)[1].required
    /\ ~getFieldsWithPivaRequired(countryCode)[1].required

====
